---------------------------- MODULE Spec2Model ----------------------------
(***************************************************************************)
(* LMSR pricing engine of the prediction-market front end.                 *)
(*                                                                         *)
(* Two variants of MarketCalculations live in the repository:              *)
(*   - src/unnamed/part_013: log-sum-exp cost, Newton share solver, fee    *)
(*     rate as a parameter.  Its operators carry the source's names.       *)
(*   - src/src/utils/market-calculations.ts: direct exp(), binary-search   *)
(*     share solver, fixed FEE_RATE.  Its operators carry the source's     *)
(*     names with the suffix BS where the two files share a name.          *)
(*                                                                         *)
(* Numbers.  A JavaScript `number` holding tokens, shares or a cost is an  *)
(* integer count of 1/ONE units (fixed point, truncated).  A dimension-    *)
(* less ratio (an exp() value, a price) is an integer count of 1/Q units,  *)
(* Q = 2^20.  bigint values (qYes, qNo, b) are plain integers.  exp and    *)
(* ln are evaluated by their series in this fixed point; no intermediate   *)
(* value leaves 32 bits.  Where a double would be Infinity or NaN it      *)
(* is the marker Infinity or NaN (market-calculations.ts only).            *)
(***************************************************************************)
EXTENDS Integers, Sequences, FiniteSets, TLC

---------------------------------------------------------------------------
(* Bounds of the model *)
ONE == 1000           \* units per token of a `number`
MaxQ == 4             \* outstanding shares per outcome in a small market
MaxAmount == 3        \* largest spend / share count requested, in tokens

(* Program constants *)
BP_DENOM == 10000
FEE_BP == 100
FEE_RATE == 100
FEE_BASIS_POINTS == 10000
DEFAULT_B == 1000000

Q == 2^20
K == 2^10

---------------------------------------------------------------------------
(* Fixed-point arithmetic *)

Abs(x) == IF x < 0 THEN -x ELSE x
Max(x, y) == IF x >= y THEN x ELSE y
Min(x, y) == IF x <= y THEN x ELSE y

\* floor(x * y / Q) for two ratios 0 <= x, y <= Q, from 10-bit limbs of x
MulR(x, y) == ((x \div K) * y + (((x % K) * y) \div K)) \div K

\* floor(a * r / Q) for a number 0 <= a < 2^30 and a ratio 0 <= r <= Q
MulQ(a, r) ==
    ((a \div Q) * r) + ((((a \div K) % K) * r + (((a % K) * r) \div K)) \div K)

\* floor(r * Q / d) for 0 <= r < d, one bit per step (any d <= 2^30)
RECURSIVE DivBits(_, _, _, _)
DivBits(r, d, q, n) ==
    IF n = 0 THEN q
    ELSE IF 2 * r >= d THEN DivBits(2 * r - d, d, 2 * q + 1, n - 1)
                       ELSE DivBits(2 * r, d, 2 * q, n - 1)

\* floor(r * Q / d) for 0 <= r < d: ten bits per step when d allows it
DivFrac(r, d) ==
    IF d <= 2 * Q
    THEN LET t == r * K
         IN  (t \div d) * K + (((t % d) * K) \div d)
    ELSE DivBits(r, d, 0, 20)

\* floor(a * Q / d) for a >= 0, 0 < d
DivQ(a, d) == (a \div d) * Q + DivFrac(a % d, d)

\* exp(-x) for 0 <= x <= 1 (x in 1/Q): the Taylor series to the 10th power,
\* 1 - x (1 - x/2 (1 - x/3 ( ... (1 - x/10))))
ExpNegFrac(x) ==
    Q - MulR(x, Q - (MulR(x, Q - (MulR(x, Q - (MulR(x, Q - (MulR(x,
    Q - (MulR(x, Q - (MulR(x, Q - (MulR(x, Q - (MulR(x, Q - (x \div 10))
    \div 9)) \div 8)) \div 7)) \div 6)) \div 5)) \div 4)) \div 3)) \div 2))

\* exp(-1)
EInv == ExpNegFrac(Q)

\* exp(-k) for an integer k >= 0; below 1/Q from k = 14 on
RECURSIVE ExpNegInt(_)
ExpNegInt(k) ==
    IF k = 0 THEN Q
    ELSE IF k >= 14 THEN 0
    ELSE MulR(EInv, ExpNegInt(k - 1))

\* Math.exp(-(num/den)) for num >= 0, 0 < den
ExpNeg(num, den) ==
    IF num = 0 THEN Q
    ELSE IF num < den THEN ExpNegFrac(DivFrac(num, den))
    ELSE MulR(ExpNegInt(num \div den), ExpNegFrac(DivFrac(num % den, den)))

\* 2 * atanh(t) for 0 <= t <= 1/3 with t2 = t * t:
\* 2 t (1 + t2 (1/3 + t2 (1/5 + ... + t2 / 13)))
Atanh2(t, t2) ==
    2 * MulR(t, Q + MulR(t2, (Q \div 3) + MulR(t2, (Q \div 5) + MulR(t2,
        (Q \div 7) + MulR(t2, (Q \div 9) + MulR(t2, (Q \div 11)
        + (t2 \div 13)))))))

AtanhOf(t) == Atanh2(t, MulR(t, t))

\* Math.log(1 + y) for 0 <= y <= 1 (y in 1/Q), as 2 * atanh(y / (2 + y))
Log1p(y) == AtanhOf(DivFrac(y \div 2, Q + (y \div 2)))

\* floor(a * m / n) for 0 <= a, 0 <= m <= n <= BP_DENOM, without a * m
MulFrac(a, m, n) == (a \div n) * m + ((a % n) * m) \div n

\* Math.ceil(x * m / n) in whole tokens, x a number in 1/ONE units
CeilFrac(x, m, n) ==
    LET whole == MulFrac(x, m, n)
        rest == ((x % n) * m) % n
    IN  IF whole % ONE = 0 /\ rest = 0 THEN whole \div ONE
                                       ELSE (whole \div ONE) + 1

---------------------------------------------------------------------------
(* src/unnamed/part_013: MarketCalculations (log-sum-exp, Newton) *)

\* Number(x) of a bigint
toNum(x) == x * ONE

\* BigInt(Math.max(0, Math.floor(x))) of a number
FloorBig(x) == Max(0, x \div ONE)

\* a quotient that divides by the larger exponential, not by the sum
OverLargest(ey, en) ==
    [yesPrice |-> DivQ(ey, Max(ey, en)), noPrice |-> DivQ(en, Max(ey, en))]

\* ey / sum and en / sum of lines 24-26
Softmax(ey, en) == [yesPrice |-> DivQ(ey, ey + en), noPrice |-> DivQ(en, ey + en)]

\* toNum(b) || 1 cancels ONE against toNum(q), so bN is b, or 1 when b = 0
calculatePrices(qYes, qNo, b) ==
    Softmax(ExpNeg(Max(qYes, qNo) - qYes, IF b = 0 THEN 1 ELSE b),
            ExpNeg(Max(qYes, qNo) - qNo, IF b = 0 THEN 1 ELSE b))

\* bN * (log(exp(qy - maxq) + exp(qn - maxq)) + maxq) for numbers x, y and
\* bN > 0: one of the two exponentials is exp(0) = 1, the other
\* exp(-|x - y| / bN)
LogSumExp(x, y, bN) == Max(x, y) + MulQ(bN, Log1p(ExpNeg(Abs(x - y), bN)))

\* with b = 0, bN = 1e-12 and the value is max(qYes, qNo)
cost(qYes, qNo, b) ==
    IF b < 1 THEN Max(toNum(qYes), toNum(qNo))
    ELSE LogSumExp(toNum(qYes), toNum(qNo), toNum(b))

\* amountTokens * (1 - feeBp / BP_DENOM)
NetOfFee(amountTokens, feeBp) == MulFrac(amountTokens, BP_DENOM - feeBp, BP_DENOM)

\* what line 50 keeps back from the spend
BuyFee(amountTokens, feeBp) == amountTokens - NetOfFee(amountTokens, feeBp)

\* f / d of the Newton step: a signed number over a price
StepDiv(f, d) == IF f < 0 THEN -DivQ(-f, d) ELSE DivQ(f, d)

\* the bigint state the loop evaluates: BigInt(max(0, floor(q + s))) on the
\* side that is bought
Trial(q, s, bought) == FloorBig(toNum(q) + (IF bought THEN s ELSE 0))

\* the next estimate s1 replaces s at the end of a pass
Advance(st, s1) ==
    [s |-> s1, i |-> st.i + 1, brk |-> FALSE, least |-> Min(st.least, s1)]

\* a step of twice the Newton length whose estimate is not clamped at 0
OverRelaxedUpdate(st, f, d) ==
    IF f = 0 \/ d <= 0 THEN [st EXCEPT !.brk = TRUE]
    ELSE Advance(st, st.s - 2 * StepDiv(f, d))

\* lines 66-72: stop on |f| < 1e-9 (f = 0 at the resolution of a number) or
\* d <= 0, else s -= f / d, clamped at 0
NewtonUpdate(st, f, d) ==
    IF f = 0 \/ d <= 0 THEN [st EXCEPT !.brk = TRUE]
    ELSE Advance(st, Max(0, st.s - StepDiv(f, d)))

\* one pass of the for-loop of calculateSharesForBet; st = [s, i, brk, least]
\* is the estimate, the passes completed, whether the loop was left by
\* `break`, and the least estimate so far
NewtonStep(st, target, dirYes, qYes, qNo, b) ==
    IF st.brk \/ st.i >= 30 THEN st
    ELSE NewtonUpdate(st,
             cost(Trial(qYes, st.s, dirYes), Trial(qNo, st.s, ~dirYes), b) - target,
             IF dirYes
             THEN calculatePrices(Trial(qYes, st.s, dirYes),
                                  Trial(qNo, st.s, ~dirYes), b).yesPrice
             ELSE calculatePrices(Trial(qYes, st.s, dirYes),
                                  Trial(qNo, st.s, ~dirYes), b).noPrice)

\* five and thirty passes (the loop bound of the source is 30)
Newton5(st, target, dirYes, qYes, qNo, b) ==
    IF st.brk THEN st
    ELSE NewtonStep(NewtonStep(NewtonStep(NewtonStep(NewtonStep(st,
        target, dirYes, qYes, qNo, b), target, dirYes, qYes, qNo, b),
        target, dirYes, qYes, qNo, b), target, dirYes, qYes, qNo, b),
        target, dirYes, qYes, qNo, b)

Newton(s0, target, dirYes, qYes, qNo, b) ==
    Newton5(Newton5(Newton5(Newton5(Newton5(Newton5(
        [s |-> s0, i |-> 0, brk |-> FALSE, least |-> s0],
        target, dirYes, qYes, qNo, b), target, dirYes, qYes, qNo, b),
        target, dirYes, qYes, qNo, b), target, dirYes, qYes, qNo, b),
        target, dirYes, qYes, qNo, b), target, dirYes, qYes, qNo, b)

\* lines 52-73 for a net spend > 0: the loop state when the loop is left
SolveTrace(betType, net, qYes, qNo, b) ==
    Newton(net, cost(qYes, qNo, b) + net, betType = 1, qYes, qNo, b)

\* lines 52-74 for a net spend > 0
SolveShares(betType, net, qYes, qNo, b) ==
    Max(0, SolveTrace(betType, net, qYes, qNo, b).s)

\* how the loop was left: the passes completed, the estimate it holds, the
\* least estimate it held, and whether it was left by the test |f| < 1e-9
\* of line 66 (f is C - target at the estimate)
LoopExit(st, f) ==
    [passes |-> st.i, iterate |-> st.s, least |-> st.least,
     converged |-> st.brk /\ f = 0]

BuyTrace(betType, net, qYes, qNo, b) ==
    IF net <= 0
    THEN [passes |-> 0, iterate |-> 0, least |-> 0, converged |-> TRUE]
    ELSE LoopExit(SolveTrace(betType, net, qYes, qNo, b),
                  cost(Trial(qYes, SolveTrace(betType, net, qYes, qNo, b).s, betType = 1),
                       Trial(qNo, SolveTrace(betType, net, qYes, qNo, b).s, betType = 0), b)
                  - (cost(qYes, qNo, b) + net))

calculateSharesForBet(betType, amountTokens, qYes, qNo, b, feeBp) ==
    IF amountTokens <= 0 \/ NetOfFee(amountTokens, feeBp) <= 0 THEN 0
    ELSE SolveShares(betType, NetOfFee(amountTokens, feeBp), qYes, qNo, b)

\* gross of lines 87-95: C0 - C1 at the floored, clamped post-sale state
SellGross(sellType, shares, qYes, qNo, b) ==
    Max(0, cost(qYes, qNo, b)
           - cost(FloorBig(toNum(qYes) - (IF sellType = 1 THEN shares ELSE 0)),
                  FloorBig(toNum(qNo) - (IF sellType = 0 THEN shares ELSE 0)), b))

\* fee of line 96: Math.ceil((gross * feeBp) / BP_DENOM)
SellFee(gross, feeBp) == toNum(CeilFrac(gross, feeBp, BP_DENOM))

\* line 97
NetPayout(gross, feeBp) == Max(0, gross - SellFee(gross, feeBp))

calculateAmountForShares(sellType, shares, qYes, qNo, b, feeBp) ==
    IF shares <= 0 THEN 0
    ELSE NetPayout(SellGross(sellType, shares, qYes, qNo, b), feeBp)

calculateFees(amountTokens, feeBp) == toNum(CeilFrac(amountTokens, feeBp, BP_DENOM))

\* amountTokens / shares and |x - currentPrice| / currentPrice: a ratio in 1/Q
Ratio(a, d) == DivQ(a, d)

\* |x - currentPrice| / currentPrice, 0 when currentPrice is 0
RelChange(x, currentPrice) ==
    IF currentPrice > 0 THEN Ratio(Abs(x - currentPrice), currentPrice) ELSE 0

\* shares > 0 ? amount / shares : 0 of lines 110 and 122
PerShare(amount, shares) == IF shares > 0 THEN Ratio(amount, shares) ELSE 0

getBuyPrice(betType, amountTokens, qYes, qNo, b, feeBp) ==
    PerShare(amountTokens,
             calculateSharesForBet(betType, amountTokens, qYes, qNo, b, feeBp))

getSellPrice(sellType, shares, qYes, qNo, b, feeBp) ==
    PerShare(calculateAmountForShares(sellType, shares, qYes, qNo, b, feeBp), shares)

PriceOf(betType, pr) == IF betType = 1 THEN pr.yesPrice ELSE pr.noPrice

\* lines 135-149 from currentPrice and shares
ImpactOf(betType, amountTokens, currentPrice, shares, qYes, qNo, b) ==
    [priceImpact |->
         RelChange(IF shares > 0 THEN Ratio(amountTokens, shares) ELSE 0, currentPrice),
     newPrice |->
         PriceOf(betType, calculatePrices(Trial(qYes, shares, betType = 1),
                                          Trial(qNo, shares, betType = 0), b)),
     slippage |->
         RelChange(PriceOf(betType, calculatePrices(Trial(qYes, shares, betType = 1),
                                                    Trial(qNo, shares, betType = 0), b)),
                   currentPrice)]

calculateMarketImpact(betType, amountTokens, qYes, qNo, b, feeBp) ==
    ImpactOf(betType, amountTokens,
             PriceOf(betType, calculatePrices(qYes, qNo, b)),
             calculateSharesForBet(betType, amountTokens, qYes, qNo, b, feeBp),
             qYes, qNo, b)

calculateSlippage(betType, amountTokens, qYes, qNo, b, feeBp) ==
    calculateMarketImpact(betType, amountTokens, qYes, qNo, b, feeBp).slippage

---------------------------------------------------------------------------
(* src/src/utils/market-calculations.ts: MarketCalculations (direct exp,   *)
(* binary search)                                                          *)

\* IEEE-754 doubles outside the finite range
Infinity == (Q * K) + ((Q * K) - 1)
NaN == Infinity - 1
IsFinite(x) == x # Infinity /\ x # -Infinity /\ x # NaN

\* Math.exp(x) is Infinity from x = 709.79 on; the model overflows from the
\* next integer on.  With b = 0 the argument q / b is Infinity or NaN and so
\* is the exponential.
EXP_OVERFLOW == 710
ExpOverflows(q, b) == b = 0 \/ q \div b >= EXP_OVERFLOW

\* x - y of two doubles
FSub(x, y) ==
    IF x = NaN \/ y = NaN THEN NaN
    ELSE IF x = Infinity THEN (IF y = Infinity THEN NaN ELSE Infinity)
    ELSE IF x = -Infinity THEN (IF y = -Infinity THEN NaN ELSE -Infinity)
    ELSE IF y = Infinity THEN -Infinity
    ELSE IF y = -Infinity THEN Infinity
    ELSE x - y

\* x <= y and x < y of two doubles (false when either is NaN)
FLe(x, y) == x # NaN /\ y # NaN /\ x <= y
FLt(x, y) == x # NaN /\ y # NaN /\ x < y

\* qYes, qNo, b are numbers here (1/ONE units); 0 * log(Infinity) is NaN
lmsrCost(qYes, qNo, b) ==
    IF b = 0 THEN NaN
    ELSE IF ExpOverflows(qYes, b) \/ ExpOverflows(qNo, b) THEN Infinity
    ELSE LogSumExp(qYes, qNo, b)

\* expYes / (expYes + expNo); Infinity / Infinity is NaN, x / Infinity is 0
lmsrPriceYes(qYes, qNo, b) ==
    IF ExpOverflows(qYes, b) THEN NaN
    ELSE IF ExpOverflows(qNo, b) THEN 0
    ELSE Softmax(ExpNeg(Max(qYes, qNo) - qYes, b),
                 ExpNeg(Max(qYes, qNo) - qNo, b)).yesPrice

lmsrPriceNo(qYes, qNo, b) == FSub(Q, lmsrPriceYes(qYes, qNo, b))

lmsrBuyYesQuote(qYes, qNo, b, deltaYes) ==
    FSub(lmsrCost(qYes + deltaYes, qNo, b), lmsrCost(qYes, qNo, b))

lmsrBuyNoQuote(qYes, qNo, b, deltaNo) ==
    FSub(lmsrCost(qYes, qNo + deltaNo, b), lmsrCost(qYes, qNo, b))

lmsrSellYesQuote(qYes, qNo, b, sYes) ==
    IF sYes > qYes THEN 0
    ELSE FSub(lmsrCost(qYes, qNo, b), lmsrCost(qYes - sYes, qNo, b))

lmsrSellNoQuote(qYes, qNo, b, sNo) ==
    IF sNo > qNo THEN 0
    ELSE FSub(lmsrCost(qYes, qNo, b), lmsrCost(qYes, qNo - sNo, b))

calculatePricesBS(yesLiquidity, noLiquidity, b) ==
    IF toNum(yesLiquidity) = 0 /\ toNum(noLiquidity) = 0
    THEN [yesPrice |-> Q \div 2, noPrice |-> Q \div 2]
    ELSE [yesPrice |-> lmsrPriceYes(toNum(yesLiquidity), toNum(noLiquidity), toNum(b)),
          noPrice |-> lmsrPriceNo(toNum(yesLiquidity), toNum(noLiquidity), toNum(b))]

\* BigInt division: the quotient truncated toward zero
TruncDiv(x, n) == IF x >= 0 THEN x \div n ELSE -((-x) \div n)

\* fee of lines 86-87: BigInt ceiling division on floor(amount)
BetFee(amount) ==
    TruncDiv((amount \div ONE) * FEE_RATE + FEE_BASIS_POINTS - 1, FEE_BASIS_POINTS)

\* the while-loop of calculateSharesForBet (lo, hi, mid are whole share counts)
RECURSIVE BinarySearch(_, _, _, _, _, _, _)
BinarySearch(lo, hi, betType, qYes, qNo, bNum, netAmountNum) ==
    IF ~(lo < hi) THEN lo
    ELSE LET mid == (lo + hi + 1) \div 2
             quote == IF betType = 1
                      THEN lmsrBuyYesQuote(qYes, qNo, bNum, toNum(mid))
                      ELSE lmsrBuyNoQuote(qYes, qNo, bNum, toNum(mid))
         IN  IF FLe(quote, netAmountNum)
             THEN BinarySearch(mid, hi, betType, qYes, qNo, bNum, netAmountNum)
             ELSE BinarySearch(lo, mid - 1, betType, qYes, qNo, bNum, netAmountNum)

\* netAmount of line 88
NetAmount(amount) == (amount \div ONE) - BetFee(amount)

calculateSharesForBetBS(betType, amount, yesLiquidity, noLiquidity, b) ==
    toNum(BinarySearch(0, yesLiquidity + noLiquidity, betType,
                       toNum(yesLiquidity), toNum(noLiquidity), toNum(b),
                       toNum(NetAmount(amount))))

calculateAmountForSharesBS(sellType, shares, yesLiquidity, noLiquidity, b) ==
    IF sellType = 1
    THEN lmsrSellYesQuote(toNum(yesLiquidity), toNum(noLiquidity), toNum(b), shares)
    ELSE lmsrSellNoQuote(toNum(yesLiquidity), toNum(noLiquidity), toNum(b), shares)

\* shares > 0 ? amount / shares : 0 of lines 153 and 165; a NaN or infinite
\* amount stays what it is
PerShareBS(amount, shares) ==
    IF ~(shares > 0) THEN 0
    ELSE IF IsFinite(amount) THEN Ratio(amount, shares) ELSE amount

getBuyPriceBS(betType, amount, yesLiquidity, noLiquidity, b) ==
    PerShareBS(amount,
               calculateSharesForBetBS(betType, amount, yesLiquidity, noLiquidity, b))

getSellPriceBS(sellType, shares, yesLiquidity, noLiquidity, b) ==
    PerShareBS(calculateAmountForSharesBS(sellType, shares, yesLiquidity, noLiquidity, b),
               shares)

\* lines 181-203 from currentPrice and shares; the post-trade liquidity is
\* yesLiquidity + BigInt(shares) on the side that is bought
ImpactOfBS(betType, amount, currentPrice, shares, yesLiquidity, noLiquidity, b) ==
    [priceImpact |->
         RelChange(IF shares > 0 THEN Ratio(amount, shares) ELSE 0, currentPrice),
     newPrice |->
         PriceOf(betType,
             calculatePricesBS(yesLiquidity + (IF betType = 1 THEN shares \div ONE ELSE 0),
                               noLiquidity + (IF betType = 0 THEN shares \div ONE ELSE 0), b)),
     slippage |->
         RelChange(PriceOf(betType,
             calculatePricesBS(yesLiquidity + (IF betType = 1 THEN shares \div ONE ELSE 0),
                               noLiquidity + (IF betType = 0 THEN shares \div ONE ELSE 0), b)),
             currentPrice)]

calculateMarketImpactBS(betType, amount, yesLiquidity, noLiquidity, b) ==
    ImpactOfBS(betType, amount,
               PriceOf(betType, calculatePricesBS(yesLiquidity, noLiquidity, b)),
               calculateSharesForBetBS(betType, amount, yesLiquidity, noLiquidity, b),
               yesLiquidity, noLiquidity, b)

calculateSlippageBS(betType, amount, yesLiquidity, noLiquidity, b) ==
    calculateMarketImpactBS(betType, amount, yesLiquidity, noLiquidity, b).slippage

calculateFeesBS(amount) == toNum(CeilFrac(amount, FEE_RATE, FEE_BASIS_POINTS))

---------------------------------------------------------------------------
(* The callers: a component holds a market snapshot (qYes, qNo, b) and     *)
(* asks the engine for one quote; a buy quote may be followed by the quote *)
(* for selling the same shares back.                                       *)

VARIABLES qYes, qNo, b, op, arg, ret
vars == <<qYes, qNo, b, op, arg, ret>>

\* liquidity parameters of the small markets
SmallBs == {1, 4}
SmallMarkets == [qYes : 0..MaxQ, qNo : 0..MaxQ, b : SmallBs]

\* a fresh market with the default liquidity parameter
DefaultMarket == [qYes |-> 0, qNo |-> 0, b |-> DEFAULT_B]

\* Math.exp(-x) is 0 from x = 745.14 on: the price of the other side of a
\* market that is this far one-sided is 0
EXP_UNDERFLOW == 746

\* one-sided markets: 40 shares per unit of b on one side, the first share
\* count whose exp() overflows, and the first whose exp(-q) is 0
LopsidedQs == {40, EXP_OVERFLOW, EXP_UNDERFLOW}
LopsidedMarkets ==
    [qYes : LopsidedQs, qNo : {0}, b : {1}] \cup [qYes : {0}, qNo : LopsidedQs, b : {1}]
UnderflowMarkets ==
    {[qYes |-> EXP_UNDERFLOW, qNo |-> 0, b |-> 1], [qYes |-> 0, qNo |-> EXP_UNDERFLOW, b |-> 1]}

\* snapshots whose liquidity parameter is 0
DegenerateMarkets == [qYes : {0, 1}, qNo : {0, 1}, b : {0}]

Markets == SmallMarkets \cup {DefaultMarket}
AllMarkets == Markets \cup LopsidedMarkets \cup DegenerateMarkets

\* spends and share counts a caller asks about: half-token steps in a small
\* market; 100,000 tokens in the default market, where the fixed point
\* resolves a cost to about one token only
ScenarioAmounts == {100 * 1000}
Amounts(bb) ==
    IF bb = DEFAULT_B THEN {toNum(a) : a \in ScenarioAmounts}
    ELSE {(k * ONE) \div 2 : k \in 0..(2 * MaxAmount)}

\* the same, and a negative quantity
Quantities(bb) == Amounts(bb) \cup {-ONE}

FeeRates == {0, FEE_BP, BP_DENOM}
Outcomes == {0, 1}

Snapshot == [qYes |-> qYes, qNo |-> qNo, b |-> b]
NoArg == [outcome |-> 0, qty |-> 0, feeBp |-> 0]

Init ==
    /\ \E m \in AllMarkets : qYes = m.qYes /\ qNo = m.qNo /\ b = m.b
    /\ op = "none"
    /\ arg = NoArg
    /\ ret = [signal |-> "none"]

\* part_013
Cost ==
    /\ op = "none"
    /\ op' = "cost"
    /\ arg' = NoArg
    /\ ret' = [signal |-> "none", cost |-> cost(qYes, qNo, b)]
    /\ UNCHANGED <<qYes, qNo, b>>

Prices ==
    /\ op = "none"
    /\ op' = "prices"
    /\ arg' = NoArg
    /\ ret' = [signal |-> "none"] @@ calculatePrices(qYes, qNo, b)
    /\ UNCHANGED <<qYes, qNo, b>>

Buy ==
    /\ op = "none"
    /\ Snapshot \in Markets \cup UnderflowMarkets
    /\ \E betType \in Outcomes, amountTokens \in Quantities(b), feeBp \in FeeRates :
         /\ op' = "buy"
         /\ arg' = [outcome |-> betType, qty |-> amountTokens, feeBp |-> feeBp]
         /\ ret' = [signal |-> "none",
                    shares |-> calculateSharesForBet(betType, amountTokens, qYes, qNo, b, feeBp),
                    net |-> NetOfFee(amountTokens, feeBp),
                    fee |-> BuyFee(amountTokens, feeBp)]
                   @@ BuyTrace(betType, IF amountTokens <= 0 THEN 0
                                        ELSE NetOfFee(amountTokens, feeBp), qYes, qNo, b)
    /\ UNCHANGED <<qYes, qNo, b>>

Sell ==
    /\ op = "none"
    /\ Snapshot \in Markets
    /\ \E sellType \in Outcomes, shares \in Quantities(b), feeBp \in FeeRates :
         /\ op' = "sell"
         /\ arg' = [outcome |-> sellType, qty |-> shares, feeBp |-> feeBp]
         /\ ret' = [signal |-> "none",
                    gross |-> IF shares <= 0 THEN 0
                              ELSE SellGross(sellType, shares, qYes, qNo, b),
                    payout |-> calculateAmountForShares(sellType, shares, qYes, qNo, b, feeBp)]
    /\ UNCHANGED <<qYes, qNo, b>>

Fees ==
    /\ op = "none"
    /\ \E amountTokens \in Amounts(b), feeBp \in FeeRates :
         /\ op' = "fees"
         /\ arg' = [outcome |-> 0, qty |-> amountTokens, feeBp |-> feeBp]
         /\ ret' = [signal |-> "none", fee |-> calculateFees(amountTokens, feeBp)]
    /\ UNCHANGED <<qYes, qNo, b>>

\* an impact quote that writes its simulated post-trade state to the snapshot
ImpactCommitted ==
    /\ op = "none"
    /\ Snapshot \in Markets
    /\ \E betType \in Outcomes, amountTokens \in Amounts(b), feeBp \in FeeRates :
         /\ op' = "impact"
         /\ arg' = [outcome |-> betType, qty |-> amountTokens, feeBp |-> feeBp]
         /\ ret' = [signal |-> "none"]
                   @@ calculateMarketImpact(betType, amountTokens, qYes, qNo, b, feeBp)
         /\ qYes' = Trial(qYes, calculateSharesForBet(betType, amountTokens,
                                                      qYes, qNo, b, feeBp), betType = 1)
         /\ qNo' = Trial(qNo, calculateSharesForBet(betType, amountTokens,
                                                    qYes, qNo, b, feeBp), betType = 0)
    /\ b' = b

Impact ==
    /\ op = "none"
    /\ Snapshot \in Markets
    /\ \E betType \in Outcomes, amountTokens \in Amounts(b), feeBp \in FeeRates :
         /\ op' = "impact"
         /\ arg' = [outcome |-> betType, qty |-> amountTokens, feeBp |-> feeBp]
         /\ ret' = [signal |-> "none"]
                   @@ calculateMarketImpact(betType, amountTokens, qYes, qNo, b, feeBp)
    /\ UNCHANGED <<qYes, qNo, b>>

\* called with the default fee rate
Slippage ==
    /\ op = "none"
    /\ Snapshot \in Markets
    /\ \E betType \in Outcomes, amountTokens \in Amounts(b) :
         /\ op' = "slippage"
         /\ arg' = [outcome |-> betType, qty |-> amountTokens, feeBp |-> FEE_BP]
         /\ ret' = [signal |-> "none",
                    slippage |-> calculateSlippage(betType, amountTokens,
                                                   qYes, qNo, b, FEE_BP)]
    /\ UNCHANGED <<qYes, qNo, b>>

BuyPrice ==
    /\ op = "none"
    /\ Snapshot \in Markets
    /\ \E betType \in Outcomes, amountTokens \in Quantities(b), feeBp \in FeeRates :
         /\ op' = "buyPrice"
         /\ arg' = [outcome |-> betType, qty |-> amountTokens, feeBp |-> feeBp]
         /\ ret' = [signal |-> "none",
                    price |-> getBuyPrice(betType, amountTokens, qYes, qNo, b, feeBp)]
    /\ UNCHANGED <<qYes, qNo, b>>

SellPrice ==
    /\ op = "none"
    /\ Snapshot \in Markets
    /\ \E sellType \in Outcomes, shares \in Quantities(b), feeBp \in FeeRates :
         /\ op' = "sellPrice"
         /\ arg' = [outcome |-> sellType, qty |-> shares, feeBp |-> feeBp]
         /\ ret' = [signal |-> "none",
                    price |-> getSellPrice(sellType, shares, qYes, qNo, b, feeBp)]
    /\ UNCHANGED <<qYes, qNo, b>>

\* the shares of a buy quote sold back at the post-trade state, which is a
\* bigint state as in calculateMarketImpact; the caller passes it as the
\* argument of the sell quote and keeps its snapshot
SellBack ==
    /\ op = "buy"
    /\ ret.shares > 0
    /\ LET qYs == FloorBig(toNum(qYes) + (IF arg.outcome = 1 THEN ret.shares ELSE 0))
           qNs == FloorBig(toNum(qNo) + (IF arg.outcome = 0 THEN ret.shares ELSE 0))
           gross == SellGross(arg.outcome, ret.shares, qYs, qNs, b)
       IN  /\ ret' = [signal |-> "none",
                      shares |-> ret.shares,
                      buyFee |-> ret.fee,
                      gross |-> gross,
                      sellFee |-> SellFee(gross, arg.feeBp),
                      payout |-> calculateAmountForShares(arg.outcome, ret.shares,
                                                          qYs, qNs, b, arg.feeBp)]
    /\ op' = "roundtrip"
    /\ UNCHANGED <<qYes, qNo, b, arg>>

\* market-calculations.ts
CostBS ==
    /\ op = "none"
    /\ op' = "costBS"
    /\ arg' = NoArg
    /\ ret' = [signal |-> "none", cost |-> lmsrCost(toNum(qYes), toNum(qNo), toNum(b))]
    /\ UNCHANGED <<qYes, qNo, b>>

PricesBS ==
    /\ op = "none"
    /\ op' = "pricesBS"
    /\ arg' = NoArg
    /\ ret' = [signal |-> "none"] @@ calculatePricesBS(qYes, qNo, b)
    /\ UNCHANGED <<qYes, qNo, b>>

BuyBS ==
    /\ op = "none"
    /\ \E betType \in Outcomes, amount \in Quantities(b) :
         /\ op' = "buyBS"
         /\ arg' = [outcome |-> betType, qty |-> amount, feeBp |-> FEE_RATE]
         /\ ret' = [signal |-> "none",
                    shares |-> calculateSharesForBetBS(betType, amount, qYes, qNo, b),
                    net |-> toNum(NetAmount(amount)),
                    fee |-> toNum(BetFee(amount))]
    /\ UNCHANGED <<qYes, qNo, b>>

SellBS ==
    /\ op = "none"
    /\ \E sellType \in Outcomes, shares \in Quantities(b) :
         /\ op' = "sellBS"
         /\ arg' = [outcome |-> sellType, qty |-> shares, feeBp |-> FEE_RATE]
         /\ ret' = [signal |-> "none",
                    gross |-> calculateAmountForSharesBS(sellType, shares, qYes, qNo, b),
                    payout |-> calculateAmountForSharesBS(sellType, shares, qYes, qNo, b)]
    /\ UNCHANGED <<qYes, qNo, b>>

FeesBS ==
    /\ op = "none"
    /\ \E amount \in Amounts(b) :
         /\ op' = "feesBS"
         /\ arg' = [outcome |-> 0, qty |-> amount, feeBp |-> FEE_RATE]
         /\ ret' = [signal |-> "none", fee |-> calculateFeesBS(amount)]
    /\ UNCHANGED <<qYes, qNo, b>>

BuyPriceBS ==
    /\ op = "none"
    /\ \E betType \in Outcomes, amount \in Quantities(b) :
         /\ op' = "buyPriceBS"
         /\ arg' = [outcome |-> betType, qty |-> amount, feeBp |-> FEE_RATE]
         /\ ret' = [signal |-> "none",
                    price |-> getBuyPriceBS(betType, amount, qYes, qNo, b)]
    /\ UNCHANGED <<qYes, qNo, b>>

SellPriceBS ==
    /\ op = "none"
    /\ \E sellType \in Outcomes, shares \in Quantities(b) :
         /\ op' = "sellPriceBS"
         /\ arg' = [outcome |-> sellType, qty |-> shares, feeBp |-> FEE_RATE]
         /\ ret' = [signal |-> "none",
                    price |-> getSellPriceBS(sellType, shares, qYes, qNo, b)]
    /\ UNCHANGED <<qYes, qNo, b>>

ImpactBS ==
    /\ op = "none"
    /\ Snapshot \in Markets
    /\ \E betType \in Outcomes, amount \in Amounts(b) :
         /\ op' = "impactBS"
         /\ arg' = [outcome |-> betType, qty |-> amount, feeBp |-> FEE_RATE]
         /\ ret' = [signal |-> "none"]
                   @@ calculateMarketImpactBS(betType, amount, qYes, qNo, b)
    /\ UNCHANGED <<qYes, qNo, b>>

SlippageBS ==
    /\ op = "none"
    /\ Snapshot \in Markets
    /\ \E betType \in Outcomes, amount \in Amounts(b) :
         /\ op' = "slippageBS"
         /\ arg' = [outcome |-> betType, qty |-> amount, feeBp |-> FEE_RATE]
         /\ ret' = [signal |-> "none",
                    slippage |-> calculateSlippageBS(betType, amount, qYes, qNo, b)]
    /\ UNCHANGED <<qYes, qNo, b>>

SellBackBS ==
    /\ op = "buyBS"
    /\ ret.shares > 0
    /\ LET yesLiquidity == qYes + (IF arg.outcome = 1 THEN ret.shares \div ONE ELSE 0)
           noLiquidity == qNo + (IF arg.outcome = 0 THEN ret.shares \div ONE ELSE 0)
           payout == calculateAmountForSharesBS(arg.outcome, ret.shares,
                                                yesLiquidity, noLiquidity, b)
       IN  /\ ret' = [signal |-> "none",
                      shares |-> ret.shares,
                      buyFee |-> ret.fee,
                      gross |-> payout,
                      sellFee |-> 0,
                      payout |-> payout]
    /\ op' = "roundtripBS"
    /\ UNCHANGED <<qYes, qNo, b, arg>>

Next ==
    \/ Cost
    \/ Prices
    \/ Buy
    \/ Sell
    \/ Fees
    \/ Impact
    \/ Slippage
    \/ BuyPrice
    \/ SellPrice
    \/ SellBack
    \/ CostBS
    \/ PricesBS
    \/ BuyBS
    \/ SellBS
    \/ FeesBS
    \/ BuyPriceBS
    \/ SellPriceBS
    \/ ImpactBS
    \/ SlippageBS
    \/ SellBackBS

Spec == Init /\ [][Next]_vars

---------------------------------------------------------------------------
(* The loops of the two buy quoters, pass by pass.  The binary search of   *)
(* market-calculations.ts keeps lo, hi and mid in doubles; a share count   *)
(* above 2^31 is held as w = h * LIMB + l, and a double holds an integer   *)
(* exactly up to 2^53 only.                                                *)

LIMB == 2^24

Norm(h, l) == [h |-> h + (l \div LIMB), l |-> l % LIMB]
BigOf(n) == Norm(0, n)
BigAdd(x, y) == Norm(x.h + y.h, x.l + y.l)
BigSub(x, y) == Norm(x.h - y.h, x.l - y.l)
BigLess(x, y) == x.h < y.h \/ (x.h = y.h /\ x.l < y.l)

\* floor(x / 2) and ceil(x / n) for a small n
BigHalf(x) == [h |-> x.h \div 2, l |-> ((x.h % 2) * LIMB + x.l) \div 2]
BigCeilDiv(x, n) == Norm(x.h \div n, (((x.h % n) * LIMB + x.l) + (n - 1)) \div n)

\* the distance between neighbouring doubles at x: 1 below 2^53, 2 below
\* 2^54, 4 below 2^55
Ulp(x) == IF x.h < 2^29 THEN 1 ELSE IF x.h < 2^30 THEN 2 ELSE 4

\* the double nearest to the integer x, ties to the even mantissa; r is the
\* excess of x over a multiple of u
RoundTo(x, u, r) ==
    IF 2 * r < u \/ (2 * r = u /\ (x.l \div u) % 2 = 0)
    THEN Norm(x.h, x.l - r)
    ELSE Norm(x.h, x.l - r + u)
RoundNum(x) == RoundTo(x, Ulp(x), x.l % Ulp(x))

\* x + y of two doubles
NumAdd(x, y) == RoundNum(BigAdd(x, y))

\* lines 86-88 in BigInt: (betAmount * FEE_RATE + FEE_BASIS_POINTS - 1) /
\* FEE_BASIS_POINTS is the ceiling of betAmount / 100
BigNetAmount(amount) ==
    BigSub(amount, BigCeilDiv(amount, FEE_BASIS_POINTS \div FEE_RATE))

\* x / bNum as a number, for a b that is a multiple of LIMB: the cost of
\* lines 12-17 is b times a function of qYes / b and qNo / b, and a double
\* scales by a power of two exactly
Rel(x, bNum) == ((x.h \div K) * ONE) \div (bNum.h \div K)

\* lines 103-107
QuoteOf(betType, qY, qN, bNum, mid) ==
    IF betType = 1 THEN lmsrBuyYesQuote(qY, qN, bNum, mid)
    ELSE lmsrBuyNoQuote(qY, qN, bNum, mid)

\* quote <= netAmountNum of line 109
QuoteLe(betType, yesLiquidity, noLiquidity, bb, mid, net) ==
    IF bb.h = 0
    THEN FLe(QuoteOf(betType, toNum(yesLiquidity.l), toNum(noLiquidity.l),
                     toNum(bb.l), toNum(mid.l)),
             toNum(net.l))
    ELSE FLe(QuoteOf(betType, Rel(yesLiquidity, bb), Rel(noLiquidity, bb),
                     ONE, Rel(mid, bb)),
             Rel(net, bb))

\* line 100: Math.floor((lo + hi + 1) / 2), each sum rounded to a double
Mid(lo, hi) == BigHalf(NumAdd(NumAdd(lo, hi), BigOf(1)))

\* lines 109-113: lo = mid, or hi = mid - 1 rounded to a double
SearchStep(st, mid, accept) ==
    IF accept THEN [lo |-> mid, hi |-> st.hi, pass |-> st.pass + 1]
    ELSE [lo |-> st.lo, hi |-> RoundNum(BigSub(mid, BigOf(1))), pass |-> st.pass + 1]

\* the passes of a search that are followed
MaxPass == 64

\* markets with 2^53 + k YES shares and b = 2^50, and a spend of 2^54
BigMarkets ==
    [qYes : {Norm(2^29, k) : k \in {0, 2, 3, 4, 6}}, qNo : {BigOf(0)}, b : {Norm(2^26, 0)}]
BigAmounts == {Norm(2^30, 0)}

\* the markets of the quotes above, and the one-sided markets of 40 shares
SmallSearchMarkets ==
    {[qYes |-> BigOf(m.qYes), qNo |-> BigOf(m.qNo), b |-> BigOf(m.b)] :
        m \in Markets \cup {mm \in LopsidedMarkets : mm.qYes + mm.qNo = 40}}
SearchAmounts(bb) ==
    IF bb.h = 0 THEN {BigOf(a \div ONE) : a \in Amounts(bb.l)} ELSE BigAmounts

\* lines 86-97: a call of calculateSharesForBet at the head of its loop
SearchInit ==
    /\ op = "bisect"
    /\ \E m \in BigMarkets \cup SmallSearchMarkets :
         /\ qYes = m.qYes /\ qNo = m.qNo /\ b = m.b
         /\ \E betType \in Outcomes, amount \in SearchAmounts(m.b) :
              arg = [outcome |-> betType, qty |-> amount, feeBp |-> FEE_RATE]
         /\ ret = [lo |-> BigOf(0),
                   hi |-> NumAdd(RoundNum(m.qYes), RoundNum(m.qNo)),
                   pass |-> 0]

\* part_013 lines 49-60: a call with a positive net spend at the head of
\* its loop
NewtonInit ==
    /\ op = "newton"
    /\ \E m \in Markets :
         /\ qYes = m.qYes /\ qNo = m.qNo /\ b = m.b
         /\ \E betType \in Outcomes, amountTokens \in Amounts(m.b) \ {0} :
              /\ arg = [outcome |-> betType, qty |-> amountTokens, feeBp |-> FEE_BP]
              /\ ret = [s |-> NetOfFee(amountTokens, FEE_BP), i |-> 0, brk |-> FALSE,
                        least |-> NetOfFee(amountTokens, FEE_BP)]

LoopInit == NewtonInit \/ SearchInit

\* one pass of the for-loop of part_013 (lines 61-73)
NewtonPass ==
    /\ op = "newton"
    /\ ~ret.brk /\ ret.i < 30
    /\ ret' = NewtonStep(ret, cost(qYes, qNo, b) + NetOfFee(arg.qty, arg.feeBp),
                         arg.outcome = 1, qYes, qNo, b)
    /\ UNCHANGED <<qYes, qNo, b, op, arg>>

\* one pass of the while-loop of market-calculations.ts (lines 99-114)
SearchPass ==
    /\ op = "bisect"
    /\ BigLess(ret.lo, ret.hi)
    /\ ret.pass < MaxPass
    /\ ret' = SearchStep(ret, Mid(ret.lo, ret.hi),
                         QuoteLe(arg.outcome, qYes, qNo, b, Mid(ret.lo, ret.hi),
                                 RoundNum(BigNetAmount(arg.qty))))
    /\ UNCHANGED <<qYes, qNo, b, op, arg>>

LoopNext == NewtonPass \/ SearchPass

LoopSpec == LoopInit /\ [][LoopNext]_vars

---------------------------------------------------------------------------
(* src/src/utils/market-calculations.ts: getMarketStatus, followed while   *)
(* the counter of the chain advances and the market is resolved            *)

\* enum MarketStatus, in the order of its declaration
MarketStatus ==
    <<"WAIT_START", "ACTIVE_TRADING", "WAIT_RESOLUTION", "PENDING_RESOLUTION", "RESOLVED">>

\* the text of formatTimeRemaining as the sequence of its numbers and units
formatTimeRemaining(seconds) ==
    IF seconds <= 0 THEN <<0, "s">>
    ELSE IF seconds \div 86400 > 0
         THEN <<seconds \div 86400, "d", (seconds % 86400) \div 3600, "h",
                (seconds % 3600) \div 60, "m">>
    ELSE IF (seconds % 86400) \div 3600 > 0
         THEN <<(seconds % 86400) \div 3600, "h", (seconds % 3600) \div 60, "m">>
    ELSE IF (seconds % 3600) \div 60 > 0
         THEN <<(seconds % 3600) \div 60, "m", seconds % 60, "s">>
    ELSE <<seconds % 60, "s">>

\* a countdown that measures from the counter back to the boundary
RemainingSince(boundary, currentCounter, counterInterval) ==
    (currentCounter - boundary) * counterInterval

\* remainingCounters * counterInterval
RemainingSeconds(boundary, currentCounter, counterInterval) ==
    (boundary - currentCounter) * counterInterval

\* a trading window that is closed on both sides
IsActiveThroughEnd(currentCounter, startTime, endTime) ==
    currentCounter >= startTime /\ currentCounter <= endTime

\* the condition of line 319
IsActive(currentCounter, startTime, endTime) ==
    currentCounter >= startTime /\ currentCounter < endTime

\* one of the three timed results
Timed(status, statusText, remainingSeconds) ==
    [status |-> status, statusText |-> statusText,
     timeRemaining |-> remainingSeconds,
     timeRemainingText |-> formatTimeRemaining(remainingSeconds)]

getMarketStatus(currentCounter, startTime, endTime, resolutionTime, resolved, counterInterval) ==
    IF resolved
    THEN [status |-> "RESOLVED", statusText |-> "Resolved",
          timeRemaining |-> 0, timeRemainingText |-> <<"Market Resolved">>]
    ELSE IF currentCounter < startTime
    THEN Timed("WAIT_START", "Wait Start",
               RemainingSeconds(startTime, currentCounter, counterInterval))
    ELSE IF IsActive(currentCounter, startTime, endTime)
    THEN Timed("ACTIVE_TRADING", "Active Trading",
               RemainingSeconds(endTime, currentCounter, counterInterval))
    ELSE IF currentCounter >= endTime /\ currentCounter < resolutionTime
    THEN Timed("WAIT_RESOLUTION", "Wait Resolution",
               RemainingSeconds(resolutionTime, currentCounter, counterInterval))
    ELSE [status |-> "PENDING_RESOLUTION", statusText |-> "Pending Resolution",
          timeRemaining |-> 0, timeRemainingText |-> <<"Awaiting Resolution">>]

\* counters and market times of the model, and seconds per counter: the 5
\* of every caller, a third of a day, and none
MaxCounter == 4
Counters == 0..MaxCounter
Times == 0..(MaxCounter - 1)
COUNTER_INTERVAL == 5
Intervals == {0, COUNTER_INTERVAL, 28800}

\* the status of the market whose times and counter are in arg
StatusNow(a) ==
    getMarketStatus(a.currentCounter, a.startTime, a.endTime, a.resolutionTime,
                    a.resolved, a.counterInterval)

\* an unresolved market, with any times, is displayed before the counter
\* is fetched: useState<number>(0) of MarketList.tsx line 36
StatusInit ==
    /\ op = "status"
    /\ qYes = DefaultMarket.qYes /\ qNo = DefaultMarket.qNo /\ b = DefaultMarket.b
    /\ \E s \in Times, e \in Times, r \in Times, i \in Intervals :
         arg = [currentCounter |-> 0, startTime |-> s, endTime |-> e,
                resolutionTime |-> r, resolved |-> FALSE, counterInterval |-> i]
    /\ ret = StatusNow(arg)

\* a later counter is fetched (MarketList.tsx lines 71-73) and the status
\* is computed again
CounterAdvance ==
    /\ op = "status"
    /\ \E c \in Counters :
         /\ c > arg.currentCounter
         /\ arg' = [arg EXCEPT !.currentCounter = c]
    /\ ret' = StatusNow(arg')
    /\ UNCHANGED <<qYes, qNo, b, op>>

\* a market that was resolved and is fetched as unresolved again
MarketReopen ==
    /\ op = "status"
    /\ arg' = [arg EXCEPT !.resolved = ~arg.resolved]
    /\ ret' = StatusNow(arg')
    /\ UNCHANGED <<qYes, qNo, b, op>>

\* the market is fetched as resolved and the status is computed again
MarketResolve ==
    /\ op = "status"
    /\ ~arg.resolved
    /\ arg' = [arg EXCEPT !.resolved = TRUE]
    /\ ret' = StatusNow(arg')
    /\ UNCHANGED <<qYes, qNo, b, op>>

StatusNext == CounterAdvance \/ MarketResolve

StatusSpec == StatusInit /\ [][StatusNext]_vars

---------------------------------------------------------------------------
(* src/src/components/TradingPanel.tsx and its status-aware version        *)
(* src/unnamed/part_005: the fields, buttons and handlers of the panel.    *)
(* op names the version, arg holds the chain and the player, ret the state *)
(* of the component and the onTrade calls that have not settled.           *)

StatusAware == op = "statusPanel"

\* texts of an input field, and parseFloat(text) || 0 as a number
InputTexts == {"", "0", "1", "2", "3"}
ParsedOrZero(text) ==
    CASE text = "1" -> toNum(1)
      [] text = "2" -> toNum(2)
      [] text = "3" -> toNum(3)
      [] OTHER -> 0

\* the market of the panel: trading from counter 1 to counter 2, resolution
\* from counter 3; a player with 2 tokens, 2 YES shares and no NO shares
PanelCounters == 0..3
PanelPlayer == [balance |-> toNum(2), yes_shares |-> toNum(2), no_shares |-> 0]
PanelMarket(c) ==
    [currentCounter |-> c, startTime |-> 1, endTime |-> 2, resolutionTime |-> 3,
     resolved |-> FALSE, counterInterval |-> COUNTER_INTERVAL]

\* onTrade calls that may be pending together before the model stops
\* submitting more
MaxPending == 2

\* part_005 lines 28-29; the first version has no status
canTrade(p) == StatusAware => p.market_status = "ACTIVE_TRADING"

betTypeOf(p) == IF p.selectedPosition = "YES" THEN 1 ELSE 0

\* part_005 lines 54-57; the first version deducts nothing before the call
amountAfterFees(p) ==
    IF StatusAware
    THEN ParsedOrZero(p.buyAmount) - calculateFeesBS(ParsedOrZero(p.buyAmount))
    ELSE ParsedOrZero(p.buyAmount)

availableShares(p, a) == IF p.selectedPosition = "YES" THEN a.yes_shares ELSE a.no_shares

\* a buy button that stays enabled while a call is pending
BuyDisabledIdle(p, a) ==
    \/ ~canTrade(p)
    \/ p.buyAmount = "" \/ ParsedOrZero(p.buyAmount) <= 0
    \/ ParsedOrZero(p.buyAmount) > a.balance
    \/ (StatusAware /\ amountAfterFees(p) <= 0)

\* disabled= of the two submit buttons
BuyDisabled(p, a) ==
    \/ ~canTrade(p)
    \/ p.buyAmount = "" \/ ParsedOrZero(p.buyAmount) <= 0
    \/ ParsedOrZero(p.buyAmount) > a.balance
    \/ (StatusAware /\ amountAfterFees(p) <= 0)
    \/ p.isLoading
SellDisabled(p, a) ==
    \/ ~canTrade(p)
    \/ p.sellShares = "" \/ ParsedOrZero(p.sellShares) <= 0
    \/ p.isLoading

\* setIsLoading(true) and the call of onTrade; a pending call is kept with
\* the counter of the chain at which it was made
Submit(p, a, type, amount) ==
    [p EXCEPT !.isLoading = TRUE, !.toast = "",
              !.pending = Append(@, [type |-> type, betType |-> betTypeOf(p),
                                     amount |-> amount, at |-> a.currentCounter])]

\* toast({title: ...}) leaves the fields and the loading flag alone
Toast(p, title) == [p EXCEPT !.toast = title]

\* the title of the early return that handleBuy takes, "" if it takes none
BuyRejection(p, a) ==
    IF p.buyAmount = "" \/ ParsedOrZero(p.buyAmount) <= 0 THEN "Invalid Amount"
    ELSE IF ParsedOrZero(p.buyAmount) > a.balance THEN "Insufficient Balance"
    ELSE IF StatusAware /\ amountAfterFees(p) <= 0 THEN "Amount Too Small"
    ELSE ""

\* a sell handler that checks the share count against nothing
SellRejectionOfEmpty(p, a) ==
    IF p.sellShares = "" \/ ParsedOrZero(p.sellShares) <= 0 THEN "Invalid Shares"
    ELSE ""

\* the title of the early return that handleSell takes, "" if it takes none
SellRejection(p, a) ==
    IF p.sellShares = "" \/ ParsedOrZero(p.sellShares) <= 0 THEN "Invalid Shares"
    ELSE IF ParsedOrZero(p.sellShares) > availableShares(p, a) THEN "Insufficient Shares"
    ELSE ""

\* handleBuy and handleSell up to their await
handleBuy(p, a) ==
    IF BuyRejection(p, a) # "" THEN Toast(p, BuyRejection(p, a))
    ELSE Submit(p, a, "BUY", ParsedOrZero(p.buyAmount))
handleSell(p, a) ==
    IF SellRejection(p, a) # "" THEN Toast(p, SellRejection(p, a))
    ELSE Submit(p, a, "SELL", ParsedOrZero(p.sellShares))

\* the panel is mounted, in either version, at any counter of the chain
PanelInit ==
    /\ op \in {"panel", "statusPanel"}
    /\ qYes = DefaultMarket.qYes /\ qNo = DefaultMarket.qNo /\ b = DefaultMarket.b
    /\ \E c \in PanelCounters : arg = PanelMarket(c) @@ PanelPlayer
    /\ ret = [market_status |-> StatusNow(arg).status,
              buyAmount |-> "", sellShares |-> "", selectedPosition |-> "YES",
              isLoading |-> FALSE, toast |-> "", pending |-> <<>>]

IsPanel == op \in {"panel", "statusPanel"}

\* onChange of the two inputs
TypeBuyAmount ==
    /\ IsPanel /\ canTrade(ret)
    /\ \E text \in InputTexts : ret' = [ret EXCEPT !.buyAmount = text]
    /\ UNCHANGED <<qYes, qNo, b, op, arg>>

TypeSellShares ==
    /\ IsPanel /\ canTrade(ret)
    /\ \E text \in InputTexts : ret' = [ret EXCEPT !.sellShares = text]
    /\ UNCHANGED <<qYes, qNo, b, op, arg>>

\* the YES / NO buttons of the buy tab
SelectPosition ==
    /\ IsPanel /\ canTrade(ret)
    /\ \E position \in {"YES", "NO"} : ret' = [ret EXCEPT !.selectedPosition = position]
    /\ UNCHANGED <<qYes, qNo, b, op, arg>>

\* a click on an enabled submit button runs its handler
ClickBuy ==
    /\ IsPanel /\ ~BuyDisabled(ret, arg)
    /\ Len(ret.pending) < MaxPending
    /\ ret' = handleBuy(ret, arg)
    /\ UNCHANGED <<qYes, qNo, b, op, arg>>

ClickSell ==
    /\ IsPanel /\ ~SellDisabled(ret, arg)
    /\ Len(ret.pending) < MaxPending
    /\ ret' = handleSell(ret, arg)
    /\ UNCHANGED <<qYes, qNo, b, op, arg>>

\* the oldest pending call resolves: the field of its handler is cleared
\* and the submission is announced, then the finally block runs
TradeResolved ==
    /\ IsPanel /\ ret.pending # <<>>
    /\ ret' = [ret EXCEPT !.pending = Tail(@), !.isLoading = FALSE,
                          !.buyAmount = IF Head(ret.pending).type = "BUY" THEN "" ELSE @,
                          !.sellShares = IF Head(ret.pending).type = "SELL" THEN "" ELSE @,
                          !.toast = IF Head(ret.pending).type = "BUY"
                                    THEN "Trade Submitted" ELSE "Sell Order Submitted"]
    /\ UNCHANGED <<qYes, qNo, b, op, arg>>

\* the oldest pending call rejects: the catch block, then the finally block
TradeRejected ==
    /\ IsPanel /\ ret.pending # <<>>
    /\ ret' = [ret EXCEPT !.pending = Tail(@), !.isLoading = FALSE,
                          !.toast = IF Head(ret.pending).type = "BUY"
                                    THEN "Trade Failed" ELSE "Sell Failed"]
    /\ UNCHANGED <<qYes, qNo, b, op, arg>>

\* the counter of the chain advances; the panel is not told
ChainAdvance ==
    /\ IsPanel
    /\ arg.currentCounter < 3
    /\ arg' = [arg EXCEPT !.currentCounter = @ + 1]
    /\ UNCHANGED <<qYes, qNo, b, op, ret>>

\* the poll of every 5 seconds loads the market, and the panel is rendered
\* with its status
MarketReload ==
    /\ IsPanel
    /\ ret' = [ret EXCEPT !.market_status = StatusNow(arg).status]
    /\ UNCHANGED <<qYes, qNo, b, op, arg>>

PanelNext ==
    \/ TypeBuyAmount
    \/ TypeSellShares
    \/ SelectPosition
    \/ ClickBuy
    \/ ClickSell
    \/ TradeResolved
    \/ TradeRejected
    \/ ChainAdvance
    \/ MarketReload

PanelSpec == PanelInit /\ [][PanelNext]_vars

---------------------------------------------------------------------------
(* Properties *)

\* shares outstanding for an outcome, and the snapshot as numbers
Outstanding(outcome) == IF outcome = 1 THEN qYes ELSE qNo
IsBuy == op \in {"buy", "buyBS"}
IsSell == op \in {"sell", "sellBS"}

\* cost(q) - cost(q - s e_outcome) and cost(q + s e_outcome) - cost(q) for a
\* fractional share count s, on the cost function itself
CostDrop(outcome, s) ==
    LogSumExp(toNum(qYes), toNum(qNo), toNum(b))
    - LogSumExp(toNum(qYes) - (IF outcome = 1 THEN s ELSE 0),
                toNum(qNo) - (IF outcome = 0 THEN s ELSE 0), toNum(b))
CostRise(outcome, s) ==
    LogSumExp(toNum(qYes) + (IF outcome = 1 THEN s ELSE 0),
              toNum(qNo) + (IF outcome = 0 THEN s ELSE 0), toNum(b))
    - LogSumExp(toNum(qYes), toNum(qNo), toNum(b))

\* ceil(amount * feeBp / 10000) in whole tokens, as a number
CeilFee(amount, feeBp) == toNum(CeilFrac(amount, feeBp, BP_DENOM))

\* C1: for either outcome and every market state, a sell quote for more
\* shares than are outstanding for that outcome signals InsufficientShares
\* and returns no numeric payout.
C1_OversellSignalsInsufficientShares ==
    (IsSell /\ arg.qty > toNum(Outstanding(arg.outcome)))
        => ret.signal = "InsufficientShares"

\* an oversell quoted from the clamped share count
C1_OversellPaid ==
    op = "sell" /\ arg.qty > toNum(Outstanding(arg.outcome)) /\ ret.payout > 0

\* C2: for every non-negative amount and fee rate, the fee charged on a buy
\* and the fee reported by calculateFees is exactly
\* ceil(amount * feeRateBp / 10000).
C2_FeeIsCeiling ==
    (op \in {"buy", "buyBS", "fees", "feesBS"} /\ arg.qty >= 0)
        => ret.fee = CeilFee(arg.qty, arg.feeBp)

\* a buy at the default rate that keeps back a fraction of a token
C2_FractionalBuyFee ==
    op = "buy" /\ arg.feeBp = FEE_BP /\ 0 < ret.fee /\ ret.fee < ONE

\* C3: the buy quoter and the sell quoter apply the same fee rule: the fee
\* a sell deducts from its gross payout G is the fee a buy deducts from a
\* gross amount G.
C3_OneFeeRule ==
    /\ op = "sell" => Max(0, ret.gross - ret.payout)
                        = Min(ret.gross, BuyFee(ret.gross, arg.feeBp))
    /\ (op = "sellBS" /\ IsFinite(ret.gross) /\ ret.gross >= 0)
           => ret.gross - ret.payout = toNum(BetFee(ret.gross))

\* a sell of at least one token gross that deducts nothing
C3_SellWithoutFee ==
    op = "sellBS" /\ IsFinite(ret.gross) /\ ret.gross >= ONE /\ ret.payout = ret.gross

\* C4: a sell quote for s <= outstanding shares returns gross - fee, where
\* gross = cost(q) - cost(q - s e_outcome) >= 0 and fee is the ceiling fee
\* on gross; it never returns the gross without the fee deducted.  Stated on
\* the small markets.
C4_SellReturnsGrossLessFee ==
    (IsSell /\ Snapshot \in SmallMarkets
            /\ 0 <= arg.qty /\ arg.qty <= toNum(Outstanding(arg.outcome)))
        => /\ CostDrop(arg.outcome, arg.qty) >= 0
           /\ Abs(ret.payout - (CostDrop(arg.outcome, arg.qty)
                     - CeilFee(CostDrop(arg.outcome, arg.qty), arg.feeBp))) <= 2

\* a sell within the outstanding shares that returns the gross itself
C4_GrossReturned ==
    /\ op = "sellBS" /\ Snapshot \in SmallMarkets
    /\ 0 < arg.qty /\ arg.qty <= toNum(Outstanding(arg.outcome))
    /\ ret.payout = CostDrop(arg.outcome, arg.qty) /\ ret.payout >= ONE

\* C5: for every market state and outcome, a buy whose amount net of fee is
\* <= 0 returns exactly 0 shares and signals no error.
C5_NoNetNoShares ==
    (IsBuy /\ ret.net <= 0) => (ret.shares = 0 /\ ret.signal = "none")

\* a buy with nothing left after the fee that still returns shares
C5_SharesForNothing == op = "buyBS" /\ ret.net <= 0 /\ ret.shares > 0

\* C6: for a buy with net amount > 0 the returned share count s satisfies
\* s >= 0 and cost(q + s e_outcome) - cost(q) = net within the stopping
\* tolerance (here a hundredth of a token, in the small markets where the
\* cost is resolved finer than that).
C6_BuySolvesCostEquation ==
    (IsBuy /\ ret.net > 0 /\ Snapshot \in SmallMarkets)
        => /\ ret.shares >= 0
           /\ Abs(CostRise(arg.outcome, ret.shares) - ret.net) <= ONE \div 100

\* a Newton result whose shares cost over half a token more than the net spend
C6_FarFromRoot ==
    /\ op = "buy" /\ Snapshot \in SmallMarkets /\ ret.net > 0
    /\ CostRise(arg.outcome, ret.shares) - ret.net > ONE \div 2

\* C7: with b = 1,000,000 and qYes = qNo = 0, a YES buy of 100,000 at 100bp
\* has net spend 99,000, returns about 98,534 shares (within 1%), a positive
\* count, and the YES price at the post-trade state is above 0.5.
C7_ScenarioQuote ==
    (IsBuy /\ Snapshot = DefaultMarket
           /\ arg = [outcome |-> 1, qty |-> toNum(100000), feeBp |-> FEE_BP])
        => /\ ret.net = toNum(99000)
           /\ Abs(ret.shares - toNum(98534)) <= toNum(985)
           /\ ret.shares > 0
           /\ calculatePrices(Trial(qYes, ret.shares, TRUE), qNo, b).yesPrice > Q \div 2

\* the scenario quoted by the binary search: no shares
C7_ScenarioNoShares ==
    /\ op = "buyBS" /\ Snapshot = DefaultMarket
    /\ arg.outcome = 1 /\ arg.qty = toNum(100000) /\ ret.net = toNum(99000)
    /\ ret.shares = 0

\* C8: buying s shares for gross amount A and selling them back at once at
\* the post-trade state pays out at most A, and A - payout is the buy fee
\* plus the sell fee up to rounding (here one token).  Stated on the small
\* markets, where the cost is resolved far finer than a token.
C8_RoundTripLosesTheFees ==
    (op \in {"roundtrip", "roundtripBS"} /\ b \in SmallBs)
        => /\ ret.payout <= arg.qty
           /\ Abs((arg.qty - ret.payout) - (ret.buyFee + ret.sellFee)) <= ONE

\* a round trip at the default rate that pays out more than was spent
C8_RoundTripGain ==
    op = "roundtrip" /\ b \in SmallBs /\ arg.feeBp = FEE_BP /\ ret.payout > arg.qty

\* C9: for all qYes, qNo >= 0 and b > 0, calculatePrices returns two prices
\* in [0, 1] that sum to 1 (within the rounding of the two quotients), and
\* neither is NaN or infinite.
C9_PricesAreNormalised ==
    (op \in {"prices", "pricesBS"} /\ b > 0)
        => /\ IsFinite(ret.yesPrice) /\ IsFinite(ret.noPrice)
           /\ 0 <= ret.yesPrice /\ ret.yesPrice <= Q
           /\ 0 <= ret.noPrice /\ ret.noPrice <= Q
           /\ Abs(ret.yesPrice + ret.noPrice - Q) <= 2

\* a NaN price
C9_NaNPrice == op = "pricesBS" /\ b > 0 /\ ret.yesPrice = NaN

\* C10: the YES price at (qYes = x, qNo = y) equals the NO price at the
\* swapped state (qYes = y, qNo = x) (within the rounding of one quotient;
\* NaN equals nothing).
C10_PriceSymmetry ==
    /\ op = "prices" => ret.yesPrice = calculatePrices(qNo, qYes, b).noPrice
    /\ (op = "pricesBS" /\ b > 0)
           => /\ IsFinite(ret.yesPrice)
              /\ IsFinite(calculatePricesBS(qNo, qYes, b).noPrice)
              /\ Abs(ret.yesPrice - calculatePricesBS(qNo, qYes, b).noPrice) <= 1

\* a YES price of 0 whose swapped NO price is NaN
C10_SwappedIsNaN ==
    op = "pricesBS" /\ b > 0 /\ ret.yesPrice = 0 /\ calculatePricesBS(qNo, qYes, b).noPrice = NaN

\* C11: in a fresh market (qYes = qNo = 0) with any b > 0, calculatePrices
\* returns exactly one half for each outcome.
C11_FreshMarketIsEven ==
    (op \in {"prices", "pricesBS"} /\ qYes = 0 /\ qNo = 0 /\ b > 0)
        => (ret.yesPrice = Q \div 2 /\ ret.noPrice = Q \div 2)

\* the prices of part_013 for the fresh market with the default b
C11_FreshDefaultPriced ==
    op = "prices" /\ Snapshot = DefaultMarket /\ ret.yesPrice = Q \div 2

\* C12: the cost is strictly increasing in qYes for fixed qNo and b, and in
\* qNo for fixed qYes and b; so the buy quote for a whole share is > 0 and
\* the gross payout of a sell of s > 0 outstanding shares is > 0.  Stated
\* for b = 1 and b = 4, where a share is resolved by the fixed point.
C12_CostStrictlyIncreasing ==
    /\ (op = "cost" /\ b \in SmallBs)
           => /\ ret.cost < cost(qYes + 1, qNo, b)
              /\ ret.cost < cost(qYes, qNo + 1, b)
    /\ (op = "costBS" /\ b \in SmallBs)
           => /\ FLt(ret.cost, lmsrCost(toNum(qYes + 1), toNum(qNo), toNum(b)))
              /\ FLt(ret.cost, lmsrCost(toNum(qYes), toNum(qNo + 1), toNum(b)))
              /\ FLt(0, lmsrBuyYesQuote(toNum(qYes), toNum(qNo), toNum(b), toNum(1)))
              /\ FLt(0, lmsrBuyNoQuote(toNum(qYes), toNum(qNo), toNum(b), toNum(1)))
    /\ (IsSell /\ b \in SmallBs
               /\ 0 < arg.qty /\ arg.qty <= toNum(Outstanding(arg.outcome)))
           => FLt(0, ret.gross)

\* a finite cost at which one more YES share is quoted at nothing
C12_ShareQuotedAtNothing ==
    /\ op = "costBS" /\ b \in SmallBs /\ IsFinite(ret.cost)
    /\ lmsrBuyYesQuote(toNum(qYes), toNum(qNo), toNum(b), toNum(1)) = 0

\* C13: an engine call with b <= 0, a negative amount or a negative share
\* quantity fails at once with a precondition error; it returns no quote and
\* substitutes no clamped value (b = 1, amount = 0).
C13_InvalidInputRejected ==
    \/ op \in {"none", "fees", "feesBS"}
    \/ (b > 0 /\ arg.qty >= 0)
    \/ ret.signal = "PreconditionError"

\* prices quoted for b = 0 as if b were 1, and a quote of 0 shares for a
\* negative amount
C13_ClampedLiquidity ==
    /\ op = "prices" /\ b = 0 /\ qYes = 1 /\ qNo = 0
    /\ ret.signal = "none" /\ ret.yesPrice = calculatePrices(1, 0, 1).yesPrice

\* C14: when the buy quoter yields 0 shares for the requested amount,
\* calculateMarketImpact returns priceImpact = 0, newPrice = 0 and
\* slippage = 0.
C14_NoSharesNoImpact ==
    \/ ~(\/ op = "impact" /\ NetOfFee(arg.qty, arg.feeBp) <= 0
         \/ op = "impactBS"
                /\ calculateSharesForBetBS(arg.outcome, arg.qty, qYes, qNo, b) = 0)
    \/ (ret.priceImpact = 0 /\ ret.newPrice = 0 /\ ret.slippage = 0)

\* the scenario trade in the fresh default market: no shares, a price
\* impact of 100% and the current price as the new price
C14_FullImpactOfNoTrade ==
    /\ op = "impactBS" /\ Snapshot = DefaultMarket /\ arg.qty > 0
    /\ calculateSharesForBetBS(arg.outcome, arg.qty, qYes, qNo, b) = 0
    /\ ret.priceImpact = Q /\ ret.newPrice = Q \div 2 /\ ret.slippage = 0

\* every number of a result is finite
FiniteResult == \A f \in DOMAIN ret \ {"signal", "converged"} : IsFinite(ret[f])
IsPrice == op \in {"buyPrice", "sellPrice", "buyPriceBS", "sellPriceBS"}

\* C15: for every market state with b > 0, a zero spend, a zero share
\* quantity and the fresh market never raise an error or give a NaN or an
\* infinite number: a buy of amount 0 returns 0 shares, a sell of 0 shares
\* pays out 0, and getBuyPrice and getSellPrice return 0 for them.
C15_ZeroQuantitiesAreSafe ==
    /\ (b > 0 /\ arg.qty = 0 /\ (IsBuy \/ IsSell \/ IsPrice))
           => /\ ret.signal = "none" /\ FiniteResult
              /\ IsBuy => ret.shares = 0
              /\ IsSell => ret.payout = 0
              /\ IsPrice => ret.price = 0
    /\ (b > 0 /\ qYes = 0 /\ qNo = 0 /\ op # "none")
           => (ret.signal = "none" /\ FiniteResult)

\* a sell of 0 shares whose payout is NaN
C15_NaNForNoShares == op = "sellBS" /\ b > 0 /\ arg.qty = 0 /\ ret.payout = NaN

\* C16: every engine operation (cost, prices, buy quote, sell quote, fees,
\* effective prices, impact, slippage) leaves the caller's snapshot
\* (qYes, qNo, b) unchanged; the post-trade state of an impact quote is a
\* simulated copy.
C16_SnapshotUnchanged == [][qYes' = qYes /\ qNo' = qNo /\ b' = b]_vars

\* an impact quote whose new price differs from the price of the snapshot,
\* which is still the one the quote was asked for
C16_ImpactSimulated ==
    /\ op = "impact" /\ ret.slippage > 0
    /\ ret.newPrice # PriceOf(arg.outcome, calculatePrices(qYes, qNo, b))

\* C17: when the Newton loop has not reached |f| < 1e-9 within its 30 passes,
\* or stops early because the derivative is <= 0, the quoter falls back to
\* a bisection for the root and never returns the unconverged Newton
\* estimate: the count returned is not the estimate the loop was left
\* with, and it solves the cost equation (within a hundredth of a token, in
\* the small markets).
C17_UnconvergedFallsBack ==
    (op = "buy" /\ ret.net > 0 /\ ~ret.converged)
        => /\ ret.shares # ret.iterate
           /\ Snapshot \in SmallMarkets
                  => Abs(CostRise(arg.outcome, ret.shares) - ret.net) <= ONE \div 100

\* the loop left at its first pass by a derivative of 0, and its starting
\* estimate (the net spend) returned as the share count
C17_StartingEstimateReturned ==
    /\ op = "buy" /\ ret.net > 0 /\ ~ret.converged /\ ret.passes = 0
    /\ ret.shares = ret.iterate /\ ret.shares = ret.net

\* hi - lo of a search, and the passes a Newton loop may still make
Width == BigSub(ret.hi, ret.lo)
PassesLeft == IF ret.brk THEN 0 ELSE 31 - ret.i

\* C18: every buy quote terminates after a bounded number of passes: the
\* Newton loop makes at most 30, and each pass of the binary search
\* strictly shrinks hi - lo.
C18_EveryPassAdvances ==
    [][/\ op = "newton" => (ret'.i <= 30 /\ PassesLeft' < PassesLeft)
       /\ op = "bisect" => BigLess(Width', Width)]_vars

\* a search with lo < hi whose next pass computes mid = lo and accepts it,
\* which leaves lo and hi as they are
C18_SearchStuck ==
    /\ op = "bisect" /\ ret.pass > 0 /\ BigLess(ret.lo, ret.hi)
    /\ Mid(ret.lo, ret.hi) = ret.lo
    /\ QuoteLe(arg.outcome, qYes, qNo, b, ret.lo, RoundNum(BigNetAmount(arg.qty)))

C20_NoOverflow ==
    (b > 0 /\ op # "none" /\ arg.qty >= 0) => FiniteResult

\* an infinite cost
C20_InfiniteCost == op = "costBS" /\ b > 0 /\ ret.cost = Infinity

\* the prices of either class at outstanding counts x and y that are
\* numbers, not whole shares
PricesAt(x, y, bb) ==
    Softmax(ExpNeg(Max(x, y) - x, toNum(bb)), ExpNeg(Max(x, y) - y, toNum(bb)))

PricesAtBS(x, y, bb) ==
    [yesPrice |-> lmsrPriceYes(x, y, toNum(bb)), noPrice |-> lmsrPriceNo(x, y, toNum(bb))]

\* the shares a market-impact call was quoted
QuotedShares ==
    IF op = "impact"
    THEN calculateSharesForBet(arg.outcome, arg.qty, qYes, qNo, b, arg.feeBp)
    ELSE calculateSharesForBetBS(arg.outcome, arg.qty, qYes, qNo, b)

\* the price of the chosen outcome after s shares of it are added, the other
\* count unchanged, and before the trade
PriceAfter(s) ==
    PriceOf(arg.outcome,
            IF op = "impact"
            THEN PricesAt(toNum(qYes) + (IF arg.outcome = 1 THEN s ELSE 0),
                          toNum(qNo) + (IF arg.outcome = 0 THEN s ELSE 0), b)
            ELSE PricesAtBS(toNum(qYes) + (IF arg.outcome = 1 THEN s ELSE 0),
                            toNum(qNo) + (IF arg.outcome = 0 THEN s ELSE 0), b))
PriceBefore == PriceAfter(0)

\* C21: in calculateMarketImpact, newPrice is the price of the chosen
\* outcome at the state obtained by adding the quoted shares to the chosen
\* outcome's count only, and slippage = |newPrice - currentPrice| /
\* currentPrice with currentPrice the chosen outcome's pre-trade price.
C21_NewPriceAfterQuotedShares ==
    (op \in {"impact", "impactBS"} /\ b > 0) =>
        /\ ret.newPrice = PriceAfter(QuotedShares)
        /\ ret.slippage = Ratio(Abs(ret.newPrice - PriceBefore), PriceBefore)

\* a quote of a fraction of a share whose new price is the price after the
\* whole shares of it only
C21_FractionDropped ==
    /\ op = "impact" /\ b > 0
    /\ QuotedShares % ONE # 0
    /\ ret.newPrice = PriceAfter(toNum(QuotedShares \div ONE))
    /\ ret.newPrice < PriceAfter(QuotedShares)

\* the buy quote of the binary-search class for s whole shares of the
\* chosen outcome at the current snapshot
QuoteBS(s) ==
    QuoteOf(arg.outcome, toNum(qYes), toNum(qNo), toNum(b), toNum(s))

\* the quote is non-decreasing over the searched range
QuoteMonotone == \A s \in 0..(qYes + qNo - 1) : FLe(QuoteBS(s), QuoteBS(s + 1))

\* r is the largest share count of the searched range that the net amount
\* pays for
LargestAffordable(r, net) ==
    /\ r \in 0..(qYes + qNo)
    /\ FLe(QuoteBS(r), net)
    /\ \A s \in (r + 1)..(qYes + qNo) : ~FLe(QuoteBS(s), net)

\* C22: provided the buy quote is non-decreasing in the share count, the
\* value returned by the binary-search calculateSharesForBet is the largest
\* integer s in [0, qYes + qNo] whose buy quote is <= the net amount.
C22_LargestAffordableShares ==
    (op = "buyBS" /\ QuoteMonotone) => LargestAffordable(ret.shares \div ONE, ret.net)

\* a quote of no shares for a negative net amount, which pays for no share
\* count at all, not even for none
C22_NothingAffordable ==
    /\ op = "buyBS" /\ QuoteMonotone /\ b > 0
    /\ ret.net < 0 /\ ret.shares = 0
    /\ \A s \in 0..(qYes + qNo) : ~FLe(QuoteBS(s), ret.net)

\* a search that has left its loop; it returns lo
SearchReturned == op = "bisect" /\ ~BigLess(ret.lo, ret.hi)

\* C23: the binary-search calculateSharesForBet always returns an integer
\* in [0, qYes + qNo]: it never quotes more shares than the total
\* outstanding across both outcomes, and returns 0 when qYes = qNo = 0.
C23_QuoteWithinOutstanding ==
    SearchReturned =>
        /\ ~BigLess(ret.lo, BigOf(0))
        /\ ~BigLess(BigAdd(qYes, qNo), ret.lo)

\* a search that returns one share more than the 2^53 + 3 outstanding
C23_QuoteAboveOutstanding ==
    /\ SearchReturned /\ ret.pass > 0
    /\ qYes = Norm(2^29, 3) /\ qNo = BigOf(0)
    /\ ret.lo = BigAdd(BigAdd(qYes, qNo), BigOf(1))

\* C24: for every non-negative amount, integer or fractional, the fee
\* deducted inside the binary-search calculateSharesForBet equals the fee
\* calculateFees(amount) that the trading panel displays for that amount.
C24_DeductedFeeIsDisplayedFee ==
    (op = "buyBS" /\ arg.qty >= 0) => ret.fee = calculateFeesBS(arg.qty)

\* a spend of half a token: no fee is deducted from it and a fee of one
\* token is displayed
C24_FeeOfFractionDiffers ==
    /\ op = "buyBS" /\ arg.qty = ONE \div 2
    /\ ret.fee = 0 /\ calculateFeesBS(arg.qty) = toNum(1)

\* the times of the displayed market are in order
TimesInOrder == arg.startTime <= arg.endTime /\ arg.endTime <= arg.resolutionTime

\* C25: getMarketStatus returns RESOLVED whenever resolved is true; for an
\* unresolved market with startTime <= endTime <= resolutionTime it returns
\* ACTIVE_TRADING iff startTime <= currentCounter < endTime, WAIT_START iff
\* currentCounter < startTime, WAIT_RESOLUTION iff endTime <= currentCounter
\* < resolutionTime and PENDING_RESOLUTION iff currentCounter >=
\* resolutionTime, so exactly one status applies to every input.
C25_StatusPartitionsTime ==
    op = "status" =>
        /\ arg.resolved => ret.status = "RESOLVED"
        /\ (~arg.resolved /\ TimesInOrder) =>
             /\ ret.status = "ACTIVE_TRADING"
                  <=> (arg.startTime <= arg.currentCounter
                         /\ arg.currentCounter < arg.endTime)
             /\ ret.status = "WAIT_START" <=> arg.currentCounter < arg.startTime
             /\ ret.status = "WAIT_RESOLUTION"
                  <=> (arg.endTime <= arg.currentCounter
                         /\ arg.currentCounter < arg.resolutionTime)
             /\ ret.status = "PENDING_RESOLUTION"
                  <=> arg.currentCounter >= arg.resolutionTime
             /\ ret.status # "RESOLVED"

\* the counter has reached the end of a trading window that was open, and
\* trading has stopped
C25_TradingClosedAtEnd ==
    /\ op = "status" /\ ~arg.resolved /\ TimesInOrder
    /\ arg.startTime < arg.endTime /\ arg.endTime < arg.resolutionTime
    /\ arg.currentCounter = arg.endTime
    /\ ret.status = "WAIT_RESOLUTION"

\* the place of a status in the order WAIT_START, ACTIVE_TRADING,
\* WAIT_RESOLUTION, PENDING_RESOLUTION, RESOLVED
Rank(status) == CHOOSE i \in DOMAIN MarketStatus : MarketStatus[i] = status

\* C26: for a market with fixed startTime <= endTime <= resolutionTime, as
\* currentCounter only increases and resolved only changes from false to
\* true, the status returned by getMarketStatus never moves backwards in
\* the order WAIT_START, ACTIVE_TRADING, WAIT_RESOLUTION,
\* PENDING_RESOLUTION, RESOLVED; once RESOLVED it stays RESOLVED.
C26_StatusNeverMovesBack ==
    [][(op = "status" /\ TimesInOrder) =>
          /\ Rank(ret'.status) >= Rank(ret.status)
          /\ ret.status = "RESOLVED" => ret'.status = "RESOLVED"]_vars

\* a market that was resolved during its trading window is displayed at a
\* later counter
C26_ResolvedWhileTrading ==
    /\ op = "status" /\ TimesInOrder
    /\ arg.startTime < arg.currentCounter /\ arg.currentCounter < arg.endTime
    /\ arg.resolved /\ ret.status = "RESOLVED"

\* the boundary that the countdown of a status runs to
NextBoundary ==
    CASE ret.status = "WAIT_START" -> arg.startTime
      [] ret.status = "ACTIVE_TRADING" -> arg.endTime
      [] ret.status = "WAIT_RESOLUTION" -> arg.resolutionTime
      [] OTHER -> arg.currentCounter

\* C27: for every input with counterInterval > 0, the timeRemaining
\* returned by getMarketStatus is never negative: it is 0 exactly when the
\* status is RESOLVED or PENDING_RESOLUTION, and otherwise equals
\* (next boundary - currentCounter) * counterInterval > 0, the next boundary
\* being startTime, endTime or resolutionTime for WAIT_START, ACTIVE_TRADING
\* and WAIT_RESOLUTION.
C27_TimeRemainingNeverNegative ==
    (op = "status" /\ arg.counterInterval > 0) =>
        /\ ret.timeRemaining >= 0
        /\ ret.timeRemaining = 0 <=> ret.status \in {"RESOLVED", "PENDING_RESOLUTION"}
        /\ ret.timeRemaining = (NextBoundary - arg.currentCounter) * arg.counterInterval

\* one counter before the end of trading, 5 seconds remain
C27_LastCounterOfTrading ==
    /\ op = "status" /\ arg.counterInterval = COUNTER_INTERVAL
    /\ ret.status = "ACTIVE_TRADING"
    /\ arg.currentCounter > 0 /\ arg.currentCounter + 1 = arg.endTime
    /\ ret.timeRemaining = COUNTER_INTERVAL

\* the call that a step of the panel submits, if it submits one
Submits == IsPanel /\ Len(ret'.pending) > Len(ret.pending)
Submitted == ret'.pending[Len(ret'.pending)]

\* the titles of the early returns of the two handlers
Rejections ==
    {"Invalid Amount", "Insufficient Balance", "Amount Too Small",
     "Invalid Shares", "Insufficient Shares"}

\* C28: the trading panel calls onTrade from handleBuy only when 0 < amount
\* <= the player's balance, and from handleSell only when 0 < shares <= the
\* player's holdings of the selected outcome; in every other case no trade
\* is submitted and the input fields and loading flag are left unchanged.
C28_OnlyCoveredTradesSubmitted ==
    [][/\ (Submits /\ Submitted.type = "BUY") =>
            /\ Submitted.amount = ParsedOrZero(ret.buyAmount)
            /\ 0 < Submitted.amount /\ Submitted.amount <= arg.balance
       /\ (Submits /\ Submitted.type = "SELL") =>
            /\ Submitted.amount = ParsedOrZero(ret.sellShares)
            /\ 0 < Submitted.amount
            /\ Submitted.amount <= availableShares(ret, arg)
       /\ (IsPanel /\ ret'.toast \in Rejections /\ ret'.toast # ret.toast) =>
            /\ ret'.pending = ret.pending
            /\ ret'.buyAmount = ret.buyAmount /\ ret'.sellShares = ret.sellShares
            /\ ret'.isLoading = ret.isLoading]_vars

\* a sale of 3 YES shares by a player who holds 2 was refused
C28_SaleRefused ==
    /\ IsPanel /\ ret.toast = "Insufficient Shares"
    /\ ret.sellShares = "3" /\ ret.selectedPosition = "YES"
    /\ ~ret.isLoading /\ ret.pending = <<>>

\* C29: in the status-aware trading panel, onTrade is never called while
\* the market status is anything other than ACTIVE_TRADING, including when
\* the status changes between the moment the panel was rendered and the
\* moment the user triggers the trade.
C29_NoTradeOutsideTrading ==
    [][(Submits /\ StatusAware) => StatusNow(arg).status = "ACTIVE_TRADING"]_vars

\* a pending call that was made at the counter at which trading ends, from
\* a panel that was rendered while trading was open
C29_TradeAfterTradingEnded ==
    /\ StatusAware /\ ret.pending # <<>>
    /\ Head(ret.pending).at = arg.endTime
    /\ ret.market_status = "ACTIVE_TRADING"

\* C30: at most one trade submitted from the trading panel is in flight at
\* a time: while an onTrade call is pending no second one can be started
\* from the panel, and the loading flag returns to false after the pending
\* call resolves or rejects.
C30_OneTradeInFlight ==
    IsPanel => (Len(ret.pending) <= 1 /\ ret.isLoading = (ret.pending # <<>>))

\* a call is pending while the amount field holds an amount that the
\* player can pay
C30_SecondTradeHeldBack ==
    /\ IsPanel /\ Len(ret.pending) = 1 /\ ret.isLoading
    /\ ~BuyDisabledIdle(ret, arg)

====
